---- MODULE Spec2Model ----
(***************************************************************************)
(* Model of wu_venv/ssEEG/denoising_MNE/denoising_h.py: the ingestion,     *)
(* container conversion, conditioning, plotting, event and time-frequency   *)
(* helpers of the single-channel EEG pipeline.                              *)
(*                                                                          *)
(* Abstractions.                                                            *)
(*  - A CSV file is a run-length encoded sequence of line chunks            *)
(*    [kind, count]; kind is "meta" (metadata line), "header" (the column   *)
(*    line), "num" (a data row with a Volt value) or "nan" (a data row      *)
(*    whose Volt value is missing).  Run-length encoding is what lets the   *)
(*    model hold files of 1,400,000 rows.                                   *)
(*  - A sample array is its length and its spectral content: the set of    *)
(*    frequencies (Hz) with power in the signal; 0 stands for the linear    *)
(*    trend / DC drift.                                                     *)
(*  - Times are exact rationals [num, den] with den > 0.                    *)
(*  - The calls into mne / pandas are modelled by what the library does at  *)
(*    that call; where the library's reaction to an invalid argument is     *)
(*    not fixed by its contract, every outcome is kept.                     *)
(***************************************************************************)
EXTENDS Integers, Sequences, FiniteSets, TLC

VARIABLES csv, eeg_data, raw, disk, op, outcome, result, calls

vars == <<csv, eeg_data, raw, disk, op, outcome, result, calls>>

\* ---------------------------------------------------------------- constants
expected_samples == 1400000

skiprows == 11

sfreq0 == 5000

h_freq == 30

notch_freqs == {50, 60}

default_new_sfreq == 5000

\* ------------------------------------------------------------------- bounds
\* largest number of data-row chunks of an input file
MaxChunks == 3

\* ------------------------------------------------------------------- inputs
\* lengths of a run of data rows
ChunkCounts == {1, 1399999}

\* the frequencies that carry power in the recording (0 = linear trend)
Spectrum == {0, 10, 60}

\* target rates handed to apply_downsampling
NewSfreqs == {-100, 0, 60, 100, default_new_sfreq}

\* start / end times (s) handed to plot_cropped_event_segment
Times == {-5, 40, 280, 300}

None == [kind |-> "None"]

\* ---------------------------------------------------------------- rationals
Rat(n, d) == [num |-> n, den |-> d]

\* (equal denominators are compared without cross-multiplying)
RLess(a, b) ==
    IF a.den = b.den THEN a.num < b.num ELSE a.num * b.den < b.num * a.den

RLeq(a, b) == ~RLess(b, a)

\* Python's builtin max(a, b) and min(a, b): the first argument wins ties
PyMax(a, b) == IF RLess(a, b) THEN b ELSE a

PyMin(a, b) == IF RLess(b, a) THEN b ELSE a

\* --------------------------------------------------------------- CSV files
RECURSIVE SeqSum(_)
SeqSum(s) == IF s = <<>> THEN 0 ELSE Head(s).count + SeqSum(Tail(s))

\* the lines of a file after its first k lines
RECURSIVE DropLines(_, _)
DropLines(lines, k) ==
    IF k = 0 \/ lines = <<>> THEN lines
    ELSE IF Head(lines).count <= k
         THEN DropLines(Tail(lines), k - Head(lines).count)
         ELSE <<[Head(lines) EXCEPT !.count = @ - k]>> \o Tail(lines)

\* pd.read_csv(csv_path, skiprows=11): the first 11 lines are skipped, the
\* next line names the columns, the remaining lines are the rows
read_csv(file) == DropLines(DropLines(file.lines, skiprows), 1)

\* mutant: rows with a missing Volt value are kept
dropna_keeps_missing(rows) == rows

\* df.dropna(subset=['Volt'])
dropna(rows) == SelectSeq(rows, LAMBDA c : c.kind # "nan")

\* df['Volt'].values
values(rows, spectrum) == [len |-> SeqSum(rows), data |-> spectrum]

RowChunks == [kind : {"num", "nan"}, count : ChunkCounts]

RowSeqs == UNION {[1..n -> RowChunks] : n \in 0..MaxChunks}

CsvFiles ==
    {[lines |-> <<[kind |-> "meta", count |-> skiprows],
                  [kind |-> "header", count |-> 1]>> \o rows,
      spectrum |-> Spectrum] : rows \in RowSeqs}

\* -------------------------------------------------------------------- Init
Init ==
    /\ csv \in CsvFiles
    /\ eeg_data = None
    /\ raw = None
    /\ disk = None
    /\ op = "init"
    /\ outcome = "none"
    /\ result = None
    /\ calls = <<>>

\* ----------------------------------------------- DataPreprocess.remove_missing
remove_missing_result(file) ==
    LET data == values(dropna(read_csv(file)), file.spectrum)
    IN  IF data.len # expected_samples
        THEN [outcome |-> "raised",
              result |-> [kind |-> "ValueError",
                          expected |-> expected_samples,
                          got |-> data.len]]
        ELSE [outcome |-> "returned",
              result |-> [kind |-> "ndarray", value |-> data]]

remove_missing ==
    LET r == remove_missing_result(csv)
    IN  /\ op' = "remove_missing"
        /\ outcome' = r.outcome
        /\ result' = r.result
        /\ eeg_data' = IF r.outcome = "returned" THEN r.result.value ELSE eeg_data
        /\ calls' = <<>>
        /\ UNCHANGED <<csv, raw, disk>>

\* ----------------------------------------------- DataPreprocess.convert_to_fif
\* mne.create_info(ch_names=['EEG'], sfreq=sfreq, ch_types=['eeg']) and
\* mne.io.RawArray(eeg_data.reshape(1, -1), info)
RawArray(data) ==
    [kind |-> "Raw", sfreq |-> sfreq0, ch_names |-> <<"EEG">>,
     n_times |-> data.len, data |-> data.data]

\* the try block of convert_to_fif; raw.save fails when the environment
\* makes it fail, and may then leave a partial file behind
convert_to_fif_result(data, fault, partial) ==
    LET r == RawArray(data)
    IN  IF fault = "save"
        THEN [outcome |-> "returned",
              result |-> [kind |-> "str", value |-> "Error occurred"],
              raw |-> None,
              disk |-> IF partial THEN [kind |-> "partial"] ELSE disk,
              calls |-> <<[fn |-> "RawArray", raised |-> FALSE],
                          [fn |-> "save", raised |-> TRUE]>>]
        ELSE [outcome |-> "returned",
              result |-> [kind |-> "tuple", value |-> r],
              raw |-> r,
              disk |-> r,
              calls |-> <<[fn |-> "RawArray", raised |-> FALSE],
                          [fn |-> "save", raised |-> FALSE]>>]

convert_to_fif ==
    /\ eeg_data # None
    /\ \E fault \in {"none", "save"}, partial \in BOOLEAN :
         LET r == convert_to_fif_result(eeg_data, fault, partial)
         IN  /\ op' = "convert_to_fif"
             /\ outcome' = r.outcome
             /\ result' = r.result
             /\ raw' = IF r.raw # None THEN r.raw ELSE raw
             /\ disk' = r.disk
             /\ calls' = r.calls
    /\ UNCHANGED <<csv, eeg_data>>

\* --------------------------------------------------------------------- Filter
\* the library's parameter check of raw.notch_filter(freqs=[50, 60]): a notch
\* frequency must lie below the Nyquist frequency sfreq / 2
notch_valid(r) == \A f \in notch_freqs : 2 * f < r.sfreq

\* the library's parameter check of raw.filter(l_freq=0.5, h_freq=30)
bandpass_valid(r) == 2 * h_freq < r.sfreq

\* a stage step: the container after the call, whether the call returned
\* (ok) or raised, and the library calls made
Step(r, ok, fns) == [raw |-> r, ok |-> ok, calls |-> fns]

\* a library call and whether it raised
Call(fn, raised) == <<[fn |-> fn, raised |-> raised]>>

inspect_signal_result(r) == Step(r, TRUE, Call("get_data", FALSE))

\* mutant: the detrended array that is stored has lost its last sample
apply_detrend_truncating(r, fault) ==
    IF fault = "detrend"
    THEN Step(r, FALSE, Call("detrend", TRUE))
    ELSE Step([r EXCEPT !.data = @ \ {0}, !.n_times = @ - 1], TRUE,
              Call("detrend", FALSE))

apply_detrend(r, fault) ==
    IF fault = "detrend"
    THEN Step(r, FALSE, Call("detrend", TRUE))
    ELSE Step([r EXCEPT !.data = @ \ {0}], TRUE, Call("detrend", FALSE))

apply_bandpass_filter(r, fault) ==
    IF fault = "filter" \/ ~bandpass_valid(r)
    THEN Step(r, FALSE, Call("filter", TRUE))
    ELSE Step([r EXCEPT !.data = {f \in @ : 1 <= 2 * f /\ f <= h_freq}],
              TRUE, Call("filter", FALSE))

apply_notch_filter(r, fault) ==
    IF fault = "notch_filter" \/ ~notch_valid(r)
    THEN Step(r, FALSE, Call("notch_filter", TRUE))
    ELSE Step([r EXCEPT !.data = @ \ notch_freqs], TRUE,
              Call("notch_filter", FALSE))

\* the statement that gave s1 followed by the one that gives s2 (a call on
\* s1.raw); s2 is not reached when s1 raised
Then(s1, s2) ==
    IF ~s1.ok THEN s1
    ELSE Step(s2.raw, s2.ok, s1.calls \o s2.calls)

\* mutant: band-pass before notch
apply_all_filters_swapped(r, fault) ==
    LET d == apply_detrend(r, fault)
        b == Then(d, apply_bandpass_filter(d.raw, fault))
    IN  Then(b, apply_notch_filter(b.raw, fault))

\* mutant: a failure of detrend is swallowed and the chain goes on
apply_all_filters_swallowing(r, fault) ==
    LET d == apply_detrend(r, fault)
        n == apply_notch_filter(d.raw, fault)
        m == Step(n.raw, n.ok, d.calls \o n.calls)
    IN  Then(m, apply_bandpass_filter(m.raw, fault))

apply_all_filters(r, fault) ==
    LET d == apply_detrend(r, fault)
        n == Then(d, apply_notch_filter(d.raw, fault))
    IN  Then(n, apply_bandpass_filter(n.raw, fault))

\* int(round(n * up / down)), at least 1
\* (n * up is split as (n \div down) * up * down + (n % down) * up to stay
\* within machine integers)
resample_len(n, up, down) ==
    LET m == (n \div down) * up + (2 * (n % down) * up + down) \div (2 * down)
    IN  IF m < 1 THEN 1 ELSE m

Resample(new_sfreq) == <<[fn |-> "resample", sfreq |-> new_sfreq]>>

\* raw.resample(new_sfreq, npad="auto"): the possible results.  The handler
\* does not look at new_sfreq before the call.  For a target <= 0 the library
\* either raises, or goes on with a ratio <= 0 and stores the target rate.
raw_resample(r, new_sfreq) ==
    IF new_sfreq = r.sfreq THEN {Step(r, TRUE, Resample(new_sfreq))}
    ELSE IF r.sfreq <= 0 THEN {Step(r, FALSE, Resample(new_sfreq))}
    ELSE IF new_sfreq > 0
    THEN {Step([r EXCEPT !.sfreq = new_sfreq,
                         !.n_times = resample_len(@, new_sfreq, r.sfreq),
                         !.data = {f \in @ : 2 * f < new_sfreq}],
               TRUE, Resample(new_sfreq))}
    ELSE {Step(r, FALSE, Resample(new_sfreq)),
          Step([r EXCEPT !.sfreq = new_sfreq, !.n_times = 1, !.data = {}],
               TRUE, Resample(new_sfreq))}

apply_downsampling_results(r, new_sfreq) == raw_resample(r, new_sfreq)

\* a Filter call on the caller's container: the container is mutated in
\* place, an exception reaches the caller, otherwise the container is returned
FilterCall(name, s) ==
    /\ op' = name
    /\ outcome' = IF s.ok THEN "returned" ELSE "raised"
    /\ result' = IF s.ok THEN [kind |-> "Raw"] ELSE [kind |-> "Exception"]
    /\ raw' = s.raw
    /\ calls' = s.calls
    /\ UNCHANGED <<csv, eeg_data, disk>>

inspect_signal ==
    /\ raw # None
    /\ op' = "inspect_signal"
    /\ outcome' = "returned"
    /\ result' = None
    /\ raw' = inspect_signal_result(raw).raw
    /\ calls' = inspect_signal_result(raw).calls
    /\ UNCHANGED <<csv, eeg_data, disk>>

DoDownsampling ==
    /\ raw # None
    /\ \E new_sfreq \in NewSfreqs :
         \E s \in apply_downsampling_results(raw, new_sfreq) :
            FilterCall("apply_downsampling", s)

DoDetrend ==
    /\ raw # None
    /\ \E fault \in {"none", "detrend"} :
         FilterCall("apply_detrend", apply_detrend(raw, fault))

DoBandpass ==
    /\ raw # None
    /\ \E fault \in {"none", "filter"} :
         FilterCall("apply_bandpass_filter", apply_bandpass_filter(raw, fault))

DoNotch ==
    /\ raw # None
    /\ \E fault \in {"none", "notch_filter"} :
         FilterCall("apply_notch_filter", apply_notch_filter(raw, fault))

DoAllFilters ==
    /\ raw # None
    /\ \E fault \in {"none", "detrend", "notch_filter", "filter"} :
         FilterCall("apply_all_filters", apply_all_filters(raw, fault))

\* ----------------------------------------------------------------------- Plot
\* raw.times[-1]: the time of the last sample
last_time(r) == Rat(r.n_times - 1, r.sfreq)

\* lines 130-131
crop_bounds(r, start_time, end_time) ==
    [tmin |-> PyMax(Rat(0, 1), Rat(start_time, 1)),
     tmax |-> PyMin(last_time(r), Rat(end_time, 1))]

\* raw.copy().crop(tmin, tmax) accepts 0 <= tmin <= tmax <= raw.times[-1]
crop_valid(r, b) ==
    /\ RLeq(Rat(0, 1), b.tmin)
    /\ RLeq(b.tmin, b.tmax)
    /\ RLeq(b.tmax, last_time(r))

plot_cropped_event_segment_result(r, start_time, end_time, fault) ==
    LET b == crop_bounds(r, start_time, end_time)
        c == <<[fn |-> "get_data"],
               [fn |-> "crop", tmin |-> b.tmin, tmax |-> b.tmax]>>
    IN  IF ~crop_valid(r, b) THEN Step(r, FALSE, c)
        ELSE IF fault = "plot" THEN Step(r, FALSE, c \o <<[fn |-> "plot"]>>)
        ELSE Step(r, TRUE, c \o <<[fn |-> "plot"], [fn |-> "savefig"]>>)

\* called on a container with a positive rate (raw.times is not a number
\* otherwise)
plot_cropped_event_segment ==
    /\ raw # None
    /\ raw.sfreq > 0
    /\ \E start_time \in Times, end_time \in Times, fault \in {"none", "plot"} :
         LET s == plot_cropped_event_segment_result(raw, start_time, end_time, fault)
         IN  /\ op' = "plot_cropped_event_segment"
             /\ outcome' = IF s.ok THEN "returned" ELSE "raised"
             /\ result' = IF s.ok THEN None ELSE [kind |-> "Exception"]
             /\ raw' = s.raw
             /\ calls' = s.calls
    /\ UNCHANGED <<csv, eeg_data, disk>>

\* --------------------------------------------------------------------- Events
Event(name, start, end) == [name |-> name, start |-> start, end |-> end]

\* mutant: "Sound Off" ends before "Touch Whiskers" starts
get_events_dict_gap ==
    <<Event("Sound On", 0, 40),
      Event("Sound Off", 40, 110),
      Event("Touch Whiskers", 113, 173),
      Event("Stop Touching", 173, 280)>>

\* the dict in insertion order
get_events_dict_result ==
    <<Event("Sound On", 0, 40),
      Event("Sound Off", 40, 113),
      Event("Touch Whiskers", 113, 173),
      Event("Stop Touching", 173, 280)>>

get_events_dict ==
    /\ op' = "get_events_dict"
    /\ outcome' = "returned"
    /\ result' = [kind |-> "dict", value |-> get_events_dict_result]
    /\ calls' = <<>>
    /\ UNCHANGED <<csv, eeg_data, raw, disk>>

\* ------------------------------------------------------------------------ FFT
\* mne.make_fixed_length_epochs(raw, duration=3.0, overlap=1.0) needs at
\* least one epoch of 3 s in the container
epochs_valid(r) == r.sfreq > 0 /\ r.n_times >= 3 * r.sfreq

TfrSteps == <<"make_fixed_length_epochs", "compute_tfr", "average", "plot">>

\* the library calls of the try block up to and including the first that
\* raises (all of them when none does)
RECURSIVE TfrCalls(_, _, _)
TfrCalls(r, fault, i) ==
    IF i > Len(TfrSteps) THEN <<>>
    ELSE IF TfrSteps[i] = fault \/ (i = 1 /\ ~epochs_valid(r))
         THEN <<[fn |-> TfrSteps[i], raised |-> TRUE]>>
         ELSE <<[fn |-> TfrSteps[i], raised |-> FALSE]>> \o TfrCalls(r, fault, i + 1)

\* mutant: no except clause
tfr_catches_nothing == FALSE

\* whether an exception raised inside the try block is caught (line 223)
tfr_catches == TRUE

compute_tfr_multitaper_result(r, fault) ==
    LET c == TfrCalls(r, fault, 1)
        failed == c[Len(c)].raised
    IN  IF failed /\ ~tfr_catches
        THEN [outcome |-> "raised", result |-> [kind |-> "Exception"],
              raw |-> r, calls |-> c]
        ELSE [outcome |-> "returned",
              result |-> [kind |-> "None",
                          printed |-> IF failed THEN "An error occurred"
                                      ELSE "completed"],
              raw |-> r, calls |-> c]

compute_tfr_multitaper ==
    /\ raw # None
    /\ \E fault \in {"none", "make_fixed_length_epochs", "compute_tfr",
                     "average", "plot"} :
         LET s == compute_tfr_multitaper_result(raw, fault)
         IN  /\ op' = "compute_tfr_multitaper"
             /\ outcome' = s.outcome
             /\ result' = s.result
             /\ raw' = s.raw
             /\ calls' = s.calls
    /\ UNCHANGED <<csv, eeg_data, disk>>

Next ==
    \/ remove_missing
    \/ convert_to_fif
    \/ inspect_signal
    \/ DoDownsampling
    \/ DoDetrend
    \/ DoBandpass
    \/ DoNotch
    \/ DoAllFilters
    \/ plot_cropped_event_segment
    \/ get_events_dict
    \/ compute_tfr_multitaper

Spec == Init /\ [][Next]_vars

\* ===================================================================== claims
\* the data rows of a file that carry a Volt value
RECURSIVE NumRows(_)
NumRows(lines) ==
    IF lines = <<>> THEN 0
    ELSE (IF Head(lines).kind = "num" THEN Head(lines).count ELSE 0)
         + NumRows(Tail(lines))

\* C1: after remove_missing, if the number of rows with a Volt value equals
\* expected_samples the call returned an array of exactly that length;
\* otherwise it raised an error carrying the expected and the actual count and
\* no array was returned.
C1_IngestionValidatesCount ==
    op = "remove_missing" =>
        IF NumRows(csv.lines) = expected_samples
        THEN /\ outcome = "returned"
             /\ result.kind = "ndarray"
             /\ result.value.len = expected_samples
             /\ eeg_data = result.value
        ELSE /\ outcome = "raised"
             /\ result.kind = "ValueError"
             /\ result.expected = expected_samples
             /\ result.got = NumRows(csv.lines)
             /\ eeg_data = None

\* a file with missing rows is accepted once they are dropped
C1_Witness ==
    /\ op = "remove_missing"
    /\ outcome = "returned"
    /\ \E i \in DOMAIN csv.lines : csv.lines[i].kind = "nan"

StageOrder == <<"detrend", "notch_filter", "filter">>

\* C2: the library calls made by apply_all_filters are a prefix of detrend,
\* notch_filter, filter (each at most once, in that order, the next only after
\* the previous returned), all three when the call returns, and resample is
\* never among them.
C2_AllFiltersOrder ==
    op = "apply_all_filters" =>
        /\ Len(calls) <= Len(StageOrder)
        /\ \A i \in DOMAIN calls : calls[i].fn = StageOrder[i]
        /\ \A i \in DOMAIN calls : i < Len(calls) => ~calls[i].raised
        /\ outcome = "returned" => Len(calls) = Len(StageOrder)
        /\ \A i \in DOMAIN calls : calls[i].fn # "resample"

C2_Witness ==
    /\ op = "apply_all_filters"
    /\ outcome = "returned"
    /\ Len(calls) = 3

\* the conditioning call named by o has an invalid filter parameter on r
InvalidFor(o, r) ==
    \/ o = "apply_notch_filter" /\ ~notch_valid(r)
    \/ o = "apply_bandpass_filter" /\ ~bandpass_valid(r)
    \/ o = "apply_all_filters" /\ (~notch_valid(r) \/ ~bandpass_valid(r))

\* C3: a conditioning call on a container whose rate makes a filter parameter
\* invalid fails and leaves the sample array and the rate as they were.
C3_InvalidParameterLeavesContainer ==
    [][(raw # None /\ InvalidFor(op', raw)) =>
          (outcome' = "raised" /\ raw'.data = raw.data
                               /\ raw'.n_times = raw.n_times
                               /\ raw'.sfreq = raw.sfreq)]_vars

\* C4: when persisting the intermediate artifact fails, convert_to_fif fails
\* with an I/O error that reaches the caller.
C4_PersistFailurePropagates ==
    (op = "convert_to_fif" /\ \E i \in DOMAIN calls :
                                 calls[i].fn = "save" /\ calls[i].raised)
        => (outcome = "raised" /\ result.kind = "IOError")

\* C5: the bounds plot_cropped_event_segment passes to crop satisfy
\* 0 <= start <= end <= container duration, whatever was requested.
C5_CropBoundsClamped ==
    op = "plot_cropped_event_segment" =>
        \A i \in DOMAIN calls :
            calls[i].fn = "crop" =>
                /\ RLeq(Rat(0, 1), calls[i].tmin)
                /\ RLeq(calls[i].tmin, calls[i].tmax)
                /\ RLeq(calls[i].tmax, Rat(raw.n_times, raw.sfreq))

\* C6: in apply_all_filters a stage that raises is the last call made, the
\* exception reaches the caller, and no stage is called twice.
C6_FailureHaltsChain ==
    op = "apply_all_filters" =>
        /\ \A i \in DOMAIN calls :
               calls[i].raised => (i = Len(calls) /\ outcome = "raised")
        /\ \A i, j \in DOMAIN calls : calls[i].fn = calls[j].fn => i = j
        /\ outcome = "raised" => calls[Len(calls)].raised

C6_Witness ==
    /\ op = "apply_all_filters"
    /\ outcome = "raised"
    /\ calls = Call("detrend", TRUE)

\* C7: compute_tfr_multitaper returns normally whichever of its library calls
\* raises, reports the failure as a message, and leaves the container as it
\* was.
C7_TfrBestEffort ==
    [][op' = "compute_tfr_multitaper" =>
          /\ outcome' = "returned"
          /\ raw' = raw
          /\ calls'[Len(calls')].raised => result'.printed = "An error occurred"]_vars

C7_Witness ==
    /\ op = "compute_tfr_multitaper"
    /\ outcome = "returned"
    /\ Len(calls) = 3
    /\ calls[3].raised

Conditioning ==
    {"apply_detrend", "apply_notch_filter", "apply_bandpass_filter",
     "apply_all_filters", "inspect_signal"}

SameShape(r1, r2) ==
    /\ r1.sfreq = r2.sfreq
    /\ r1.n_times = r2.n_times
    /\ r1.ch_names = r2.ch_names

\* C8: a detrend, notch, band-pass, all-filters or inspect call leaves the
\* rate, the sample count and the single channel of the container as they
\* were, whether it returns or raises; on an existing container only
\* apply_downsampling (or building a new container) changes them.
C8_ShapePreserved ==
    [][raw # None =>
          /\ Len(raw'.ch_names) = 1
          /\ op' \in Conditioning => SameShape(raw', raw)
          /\ ~SameShape(raw', raw) => op' \in {"apply_downsampling", "convert_to_fif"}]_vars

\* the whole chain has run and changed the samples of the container, which
\* still has the rate, length and channel it was built with
C8_Witness ==
    /\ op = "apply_all_filters"
    /\ outcome = "returned"
    /\ raw.data = {10}
    /\ raw.sfreq = sfreq0
    /\ raw.n_times = expected_samples
    /\ raw.ch_names = <<"EEG">>

\* C9: apply_downsampling with a target rate <= 0 fails and leaves the
\* container as it was.
C9_RejectsNonPositiveRate ==
    [][(op' = "apply_downsampling" /\ calls'[1].sfreq <= 0) =>
          (outcome' = "raised" /\ raw' = raw)]_vars

\* C10: the event windows, in order, start at 0, have start < end, meet end
\* to start, and end at 280 s = expected_samples / sfreq.
C10_EventsPartitionRecording ==
    op = "get_events_dict" =>
        LET ev == result.value
        IN  /\ Len(ev) = 4
            /\ ev[1].start = 0
            /\ \A i \in DOMAIN ev : ev[i].start < ev[i].end
            /\ \A i \in 1..(Len(ev) - 1) : ev[i].end = ev[i + 1].start
            /\ ev[Len(ev)].end = 280
            /\ ev[Len(ev)].end * sfreq0 = expected_samples

C10_Witness ==
    /\ op = "get_events_dict"
    /\ result.kind = "dict"
    /\ result.value[4].name = "Stop Touching"
====
